---- MODULE Spec2Model ----
(***************************************************************************)
(* A model of the RAML / OpenAPI collection importer of                    *)
(* packages/grafnode-components/src/components/RequestHeaders/index.js.    *)
(*                                                                         *)
(* Strings are sequences of symbols.  A symbol is one of the characters    *)
(* the code inspects ("/", "{", "}", " ", ":", "#") or an indivisible word *)
(* that contains none of them ("pets", "get", "application").              *)
(* JavaScript values are tagged records: undefined, null, booleans,        *)
(* strings, arrays and objects (an object is its list of entries in        *)
(* insertion order, as Object.entries enumerates it).                      *)
(***************************************************************************)
EXTENDS Integers, Sequences, FiniteSets, TLC

\* ------------------------------------------------------------------ bounds

\* Deepest nesting of resource keys ("/pets", "/pets/{id}") in an input tree.
MaxDepth == 2
\* Most entries of one queryParameters / headers / properties map.
MaxFields == 2

\* --------------------------------------------------------------- JS values

Undefined == [t |-> "undefined"]
Null == [t |-> "null"]
Bool(b) == [t |-> "bool", b |-> b]
Str(s) == [t |-> "str", s |-> s]
Obj(e) == [t |-> "obj", e |-> e]
Arr(a) == [t |-> "arr", a |-> a]
\* A one-word string literal.
S(w) == Str(<<w>>)
\* One entry of an object.
KV(k, v) == [k |-> k, v |-> v]

\* ToBoolean of a JS value.
Truthy(v) ==
  CASE v.t = "undefined" -> FALSE
    [] v.t = "null" -> FALSE
    [] v.t = "bool" -> v.b
    [] v.t = "str" -> v.s # <<>>
    [] OTHER -> TRUE

\* a || b
Or(a, b) == IF Truthy(a) THEN a ELSE b

Nullish(v) == v.t \in {"undefined", "null"}

\* Object.entries(v) of an object (of a boolean: none).
Entries(v) == IF v.t = "obj" THEN v.e ELSE <<>>

\* "k in v" for an own key of an object.
HasKey(v, k) == v.t = "obj" /\ \E i \in 1..Len(v.e) : v.e[i].k = k

\* v[k]: the property k of v, undefined when v has none.  (v is not nullish:
\* the callers raise the TypeError of a property read on null or undefined.)
Get(v, k) ==
  IF HasKey(v, k)
  THEN v.e[CHOOSE i \in 1..Len(v.e) : v.e[i].k = k].v
  ELSE Undefined

\* ----------------------------------------------------------------- strings

StartsWith(s, p) == Len(s) >= Len(p) /\ SubSeq(s, 1, Len(p)) = p

\* s.replaceAll(c, r) for a one-symbol pattern c.
RECURSIVE ReplaceAll(_, _, _)
ReplaceAll(s, c, r) ==
  IF s = <<>> THEN <<>>
  ELSE (IF Head(s) = c THEN r ELSE <<Head(s)>>) \o ReplaceAll(Tail(s), c, r)

\* s.split(sep) for a one-symbol separator: always at least one piece.
RECURSIVE SplitFrom(_, _, _)
SplitFrom(s, sep, cur) ==
  IF s = <<>> THEN <<cur>>
  ELSE IF Head(s) = sep THEN <<cur>> \o SplitFrom(Tail(s), sep, <<>>)
  ELSE SplitFrom(Tail(s), sep, Append(cur, Head(s)))

Split(s, sep) == SplitFrom(s, sep, <<>>)

RECURSIVE TrimStart(_)
TrimStart(s) ==
  IF s # <<>> /\ Head(s) = " " THEN TrimStart(Tail(s)) ELSE s

RECURSIVE TrimEnd(_)
TrimEnd(s) ==
  IF s # <<>> /\ s[Len(s)] = " " THEN TrimEnd(SubSeq(s, 1, Len(s) - 1)) ELSE s

\* s.trim()
Trim(s) == TrimEnd(TrimStart(s))

\* The words whose case the inputs vary: the HTTP method names.
LowerWords ==
  [w \in {"GET", "Get", "POST", "Post", "PUT", "DELETE", "PATCH", "OPTIONS",
          "HEAD", "TRACE"} |->
     CASE w \in {"GET", "Get"} -> "get"
       [] w \in {"POST", "Post"} -> "post"
       [] w = "PUT" -> "put"
       [] w = "DELETE" -> "delete"
       [] w = "PATCH" -> "patch"
       [] w = "OPTIONS" -> "options"
       [] w = "HEAD" -> "head"
       [] OTHER -> "trace"]

UpperWords ==
  [w \in {"get", "Get", "post", "Post", "put", "delete", "patch", "options",
          "head", "trace"} |->
     CASE w \in {"get", "Get"} -> "GET"
       [] w \in {"post", "Post"} -> "POST"
       [] w = "put" -> "PUT"
       [] w = "delete" -> "DELETE"
       [] w = "patch" -> "PATCH"
       [] w = "options" -> "OPTIONS"
       [] w = "head" -> "HEAD"
       [] OTHER -> "TRACE"]

\* s.toLowerCase()
ToLowerCase(s) ==
  [i \in 1..Len(s) |-> IF s[i] \in DOMAIN LowerWords THEN LowerWords[s[i]] ELSE s[i]]

\* s.toUpperCase()
ToUpperCase(s) ==
  [i \in 1..Len(s) |-> IF s[i] \in DOMAIN UpperWords THEN UpperWords[s[i]] ELSE s[i]]

\* The number of "/" at the front of s.
RECURSIVE SlashRun(_)
SlashRun(s) ==
  IF s # <<>> /\ Head(s) = "/" THEN 1 + SlashRun(Tail(s)) ELSE 0

\* url.replace(/([^:]\/)\/+/g, '$1'): scanning left to right, a symbol other
\* than ":" followed by two or more "/" keeps the symbol and one "/".
RECURSIVE ensureUrl(_)
ensureUrl(url) ==
  IF url = <<>> THEN <<>>
  ELSE IF Head(url) # ":" /\ SlashRun(Tail(url)) >= 2
  THEN <<Head(url), "/">>
         \o ensureUrl(SubSeq(url, 2 + SlashRun(Tail(url)), Len(url)))
  ELSE <<Head(url)>> \o ensureUrl(Tail(url))

\* uriParam.replaceAll('{', '{{').replaceAll('}', '}}')
ensureUriParameter(uriParam) ==
  ReplaceAll(ReplaceAll(uriParam, "{", <<"{", "{">>), "}", <<"}", "}">>)

\* ------------------------------------------------- RAML request construction

\* uuid(): the id generator, a counter; the call made with n ids already
\* handed out returns n.
uuid(n) == n

\* The entries of path.split('/') that start with "{", the synthetic
\* {{baseUri}} left out.
UriSegments(path) ==
  SelectSeq(SelectSeq(Split(path, "/"), LAMBDA s : StartsWith(s, <<"{">>)),
            LAMBDA s : s # <<"{", "{", "baseUri", "}", "}">>)

\* extractUriParameters(path), its ids drawn from n on.
extractUriParameters(path, n) ==
  [i \in 1..Len(UriSegments(path)) |->
     [uid |-> uuid(n + i - 1),
      name |-> Str(UriSegments(path)[i]),
      value |-> Str(<<>>),
      local |-> Bool(FALSE),
      enabled |-> Bool(TRUE)]]

\* buildApiName(method, path)
buildApiName(method, path) ==
  ToUpperCase(method) \o <<" ">>
    \o Trim(ReplaceAll(ReplaceAll(ReplaceAll(path, "/", <<" ">>), "{", <<" ">>),
                       "}", <<" ">>))

\* The enabled flag of a Field built from the source properties p.
FieldEnabled(p) == Get(p, <<"required">>)

\* One pushed Field of params / headers / a form body: withExample is TRUE
\* for headers, whose value is seeded from the declared example.
RamlField(entry, id, withExample) ==
  [uid |-> uuid(id),
   name |-> Str(entry.k),
   value |-> IF withExample THEN Or(Get(entry.v, <<"example">>), Str(<<>>))
             ELSE Str(<<>>),
   description |-> Or(Get(entry.v, <<"description">>), Str(<<>>)),
   enabled |-> FieldEnabled(entry.v)]

\* RamlFields with one uuid() call shared by the Fields of a map.
RamlFieldsOneId(map, n, withExample) ==
  [i \in 1..Len(Entries(map)) |-> RamlField(Entries(map)[i], n, withExample)]

\* Object.entries(map).map(push): one Field per entry, ids from n on.
RamlFields(map, n, withExample) ==
  [i \in 1..Len(Entries(map)) |-> RamlField(Entries(map)[i], n + i - 1, withExample)]

\* Reading .description of an entry's value raises a TypeError when the
\* value is null or undefined.
FieldsThrow(map) ==
  \E i \in 1..Len(Entries(map)) : Nullish(Entries(map)[i].v)

\* bodyModeMapping, in declaration order.
bodyModeMapping ==
  <<KV(<<"multipart", "/", "form-data">>, <<"multipartForm">>),
    KV(<<"application", "/", "x-www-form-urlencoded">>, <<"formUrlEncoded">>),
    KV(<<"application", "/", "json">>, <<"json">>),
    KV(<<"application", "/", "xml">>, <<"xml">>),
    KV(<<"text", "/", "xml">>, <<"xml">>),
    KV(<<"text", "/", "plain">>, <<"text">>)>>

\* bodyModeMapping[mediaType]
BodyModeOf(mediaType) ==
  IF mediaType.t = "str" /\ \E i \in 1..Len(bodyModeMapping) : bodyModeMapping[i].k = mediaType.s
  THEN Str(bodyModeMapping[CHOOSE i \in 1..Len(bodyModeMapping) :
                             bodyModeMapping[i].k = mediaType.s].v)
  ELSE Undefined

\* Object.keys(bodyModeMapping).find((element) => properties.body[element])
\*   || defaultMediaType
SelectMediaType(body, defaultMediaType) ==
  LET hits == {i \in 1..Len(bodyModeMapping) : Truthy(Get(body, bodyModeMapping[i].k))}
  IN IF hits # {}
     THEN Str(bodyModeMapping[CHOOSE i \in hits : \A j \in hits : i <= j].k)
     ELSE defaultMediaType

\* lodash get(properties, 'body.mediaType.<leaf>', properties.body.<leaf>): the
\* path names the key "mediaType" of the body, and the default is used when
\* the path resolves to undefined.
GetBodyLeaf(body, leaf) ==
  LET mt == Get(body, <<"mediaType">>)
      at == IF Nullish(mt) THEN Undefined ELSE Get(mt, <<leaf>>)
  IN IF at = Undefined THEN Get(body, <<leaf>>) ELSE at

\* The body literal of a fresh request item.
EmptyBody ==
  [mode |-> S("none"), json |-> Null, text |-> Null, xml |-> Null,
   formUrlEncoded |-> <<>>, multipartForm |-> <<>>]

\* The key a JS value names when used as a property key.
PropertyKey(v) == IF v.t = "str" THEN v.s[1] ELSE v.t

\* The request body createBrunoRequest leaves behind (lines 207-244), ids
\* for its form fields drawn from n on.
RamlBody(properties, defaultMediaType, n) ==
  LET body == Get(properties, <<"body">>)
      mediaType == SelectMediaType(body, defaultMediaType)
      bodyMode == BodyModeOf(mediaType)
      bodyProps == Or(GetBodyLeaf(body, "properties"), Obj(<<>>))
      example == Or(GetBodyLeaf(body, "example"), Str(<<>>))
  IN IF ~Truthy(body) \/ ~Truthy(mediaType) THEN EmptyBody
     ELSE IF bodyMode = S("multipartForm") \/ bodyMode = S("formUrlEncoded")
     THEN [EmptyBody EXCEPT !.mode = bodyMode,
                            ![PropertyKey(bodyMode)] = RamlFields(bodyProps, n, FALSE)]
     ELSE IF PropertyKey(bodyMode) \in DOMAIN EmptyBody
     THEN [EmptyBody EXCEPT !.mode = bodyMode, ![PropertyKey(bodyMode)] = example]
     ELSE [EmptyBody EXCEPT !.mode = bodyMode] @@ (PropertyKey(bodyMode) :> example)

\* The number of ids RamlBody draws.
RamlBodyIds(properties, defaultMediaType) ==
  LET body == Get(properties, <<"body">>)
      bodyMode == BodyModeOf(SelectMediaType(body, defaultMediaType))
  IN IF Truthy(body) /\ Truthy(SelectMediaType(body, defaultMediaType))
        /\ (bodyMode = S("multipartForm") \/ bodyMode = S("formUrlEncoded"))
     THEN Len(Entries(Or(GetBodyLeaf(body, "properties"), Obj(<<>>))))
     ELSE 0

\* createBrunoRequest raises a TypeError: a null entry among the query
\* parameters, the headers or the form properties.
createBrunoRequestThrows(properties, defaultMediaType) ==
  LET body == Get(properties, <<"body">>)
      bodyMode == BodyModeOf(SelectMediaType(body, defaultMediaType))
  IN \/ FieldsThrow(Or(Get(properties, <<"queryParameters">>), Obj(<<>>)))
     \/ FieldsThrow(Or(Get(properties, <<"headers">>), Obj(<<>>)))
     \/ /\ Truthy(body) /\ Truthy(SelectMediaType(body, defaultMediaType))
        /\ (bodyMode = S("multipartForm") \/ bodyMode = S("formUrlEncoded"))
        /\ FieldsThrow(Or(GetBodyLeaf(body, "properties"), Obj(<<>>)))

\* createBrunoRequest(method, baseUri, path, properties, defaultMediaType)
\* with n ids handed out before the call: the item, and the ids handed out
\* after it.  Ids are drawn in the code's order: the item, the uri
\* variables, the params, the headers, the form fields.
createBrunoRequest(method, baseUri, path, properties, defaultMediaType, n) ==
  LET vars == extractUriParameters(path, n + 1)
      nParams == n + 1 + Len(vars)
      params == RamlFields(Or(Get(properties, <<"queryParameters">>), Obj(<<>>)),
                           nParams, FALSE)
      nHeaders == nParams + Len(params)
      headers == RamlFields(Or(Get(properties, <<"headers">>), Obj(<<>>)),
                            nHeaders, TRUE)
      nBody == nHeaders + Len(headers)
  IN [val |->
        [uid |-> uuid(n),
         name |-> Or(Get(properties, <<"displayName">>), Str(buildApiName(method, path))),
         type |-> "http-request",
         request |->
           [url |-> Str(ensureUrl(baseUri \o <<"/">> \o path)),
            method |-> Str(ToUpperCase(method)),
            auth |-> [mode |-> S("none"), basic |-> Null, bearer |-> Null, digest |-> Null],
            headers |-> headers,
            params |-> params,
            vars |-> [req |-> vars],
            body |-> RamlBody(properties, defaultMediaType, nBody),
            docs |-> Or(Get(properties, <<"description">>), Str(<<>>))]],
      n |-> nBody + RamlBodyIds(properties, defaultMediaType)]

\* ------------------------------------------------------------ RAML tree walk

\* createBrunoFolder(path), the id generator having handed out n ids.
createBrunoFolder(path, n) ==
  [uid |-> uuid(n),
   name |-> Str(ReplaceAll(path, "/", <<" ">>)),
   type |-> "folder",
   items |-> <<>>]

methods ==
  {<<"get">>, <<"patch">>, <<"post">>, <<"delete">>, <<"put">>, <<"options">>,
   <<"head">>, <<"trace">>}

\* No folder to fill: the currentFolder of the top-level call.
NoFolder == [type |-> "none"]

RECURSIVE transformRamlNode(_, _, _, _, _, _)
RECURSIVE brunoEntries(_, _, _, _, _)

\* Object.entries(entries).map(...).reduce(concat): e is what is left of the
\* entries; a method key gives one request item, a key starting with "/" one
\* folder filled by the recursive call, any other key nothing.
brunoEntries(e, baseUri, basePath, defaultMediaType, n) ==
  IF e = <<>> THEN [val |-> <<>>, n |-> n]
  ELSE
    LET key == Head(e).k
        val == Head(e).v
        first ==
          IF ToLowerCase(key) \in methods
          THEN createBrunoRequest(key, baseUri, basePath, Or(val, Obj(<<>>)),
                                  defaultMediaType, n)
          ELSE IF StartsWith(key, <<"/">>)
          THEN transformRamlNode(val, baseUri, basePath \o ensureUriParameter(key),
                                 defaultMediaType, createBrunoFolder(key, n), n + 1)
          ELSE [n |-> n]
        rest == brunoEntries(Tail(e), baseUri, basePath, defaultMediaType, first.n)
    IN [val |-> (IF "val" \in DOMAIN first THEN <<first.val>> ELSE <<>>) \o rest.val,
        n |-> rest.n]

\* transformRamlNode(entries, baseUri, basePath, defaultMediaType, currentFolder)
transformRamlNode(entries, baseUri, basePath, defaultMediaType, currentFolder, n) ==
  LET r == brunoEntries(Entries(entries), baseUri, basePath, defaultMediaType, n)
  IN IF currentFolder.type = "folder"
     THEN [val |-> [currentFolder EXCEPT !.items = r.val], n |-> r.n]
     ELSE r

\* The walk raises a TypeError: Object.entries of a null or undefined node, or
\* a request construction that throws.
RECURSIVE transformRamlNodeThrows(_, _)
transformRamlNodeThrows(entries, defaultMediaType) ==
  \/ Nullish(entries)
  \/ \E i \in 1..Len(Entries(entries)) :
       LET key == Entries(entries)[i].k
           val == Entries(entries)[i].v
       IN IF ToLowerCase(key) \in methods
          THEN createBrunoRequestThrows(Or(val, Obj(<<>>)), defaultMediaType)
          ELSE StartsWith(key, <<"/">>) /\ transformRamlNodeThrows(val, defaultMediaType)

\* The try block of parseRamlCollection throws.
parseRamlCollectionThrows(data) ==
  Nullish(data) \/ transformRamlNodeThrows(data, Get(data, <<"mediaType">>))

\* The collection parseRamlCollection resolves with, the id generator having
\* handed out n ids: the collection's id is drawn before the items are built.
parseRamlCollection(data, n) ==
  LET baseUri == Or(Get(data, <<"baseUri">>), Str(<<"{", "{", "baseUri", "}", "}">>))
      defaultMediaType == Get(data, <<"mediaType">>)
  IN [name |-> Or(Get(data, <<"title">>), Str(<<>>)),
      uid |-> uuid(n),
      version |-> S("1"),
      items |-> transformRamlNode(data, baseUri.s, <<>>, defaultMediaType,
                                  NoFolder, n + 1).val,
      environments |-> <<>>]

\* -------------------------------------------------- OpenAPI request construction

\* buildEmptyJsonBody(bodySchema): an object with one empty value per
\* declared property.
RECURSIVE buildEmptyJsonBody(_)
buildEmptyJsonBody(bodySchema) ==
  LET props == Entries(Or(Get(bodySchema, <<"properties">>), Obj(<<>>)))
  IN Obj([i \in 1..Len(props) |->
            KV(props[i].k,
               IF Get(props[i].v, <<"type">>) = S("object")
               THEN buildEmptyJsonBody(props[i].v)
               ELSE IF Get(props[i].v, <<"type">>) = S("array") THEN Arr(<<>>)
               ELSE Str(<<>>))])

\* level indentation steps of two spaces.
RECURSIVE Indent(_)
Indent(level) == IF level = 0 THEN <<>> ELSE <<" ", " ">> \o Indent(level - 1)

\* JSON.stringify(v, null, 2) of a scaffold: empty strings, empty arrays and
\* nested objects.
RECURSIVE JsonStringify(_, _)
RECURSIVE JsonMembers(_, _)
JsonMembers(e, level) ==
  IF Len(e) = 0 THEN <<>>
  ELSE Indent(level) \o <<"\"">> \o Head(e).k \o <<"\"", ":", " ">>
         \o JsonStringify(Head(e).v, level)
         \o (IF Len(e) > 1 THEN <<",">> ELSE <<>>) \o <<"\n">>
         \o JsonMembers(Tail(e), level)

JsonStringify(v, level) ==
  CASE v.t = "str" -> <<"\"">> \o v.s \o <<"\"">>
    [] v.t = "arr" -> <<"[", "]">>
    [] v.t = "obj" /\ Len(v.e) = 0 -> <<"{", "}">>
    [] OTHER -> <<"{", "\n">> \o JsonMembers(v.e, level + 1) \o Indent(level) \o <<"}">>

\* getSecurity(apiSpec): the supported schemes of the spec-wide security list,
\* with the scheme index and its lookup function only when that list is not
\* empty.  (Object.keys(securitySchemes) === 0 compares an array with a number
\* and is never true.)
getSecurity(apiSpec) ==
  LET supportedSchemes == Or(Get(apiSpec, <<"security">>), Arr(<<>>))
      components == Get(apiSpec, <<"components">>)
      found == IF Nullish(components) THEN Undefined
               ELSE Get(components, <<"securitySchemes">>)
      securitySchemes == IF found = Undefined THEN Obj(<<>>) ELSE found
  IN IF Len(supportedSchemes.a) = 0
     THEN [supported |-> <<>>, hasGetScheme |-> FALSE, schemes |-> Undefined]
     ELSE [supported |->
             [i \in 1..Len(supportedSchemes.a) |->
                IF Len(Entries(supportedSchemes.a[i])) = 0 THEN Undefined
                ELSE Get(securitySchemes, Entries(supportedSchemes.a[i])[1].k)],
           hasGetScheme |-> TRUE,
           schemes |-> securitySchemes]

\* security.getScheme(schemeName)
getScheme(security, schemeName) ==
  IF schemeName = Undefined THEN Undefined ELSE Get(security.schemes, schemeName.s)

\* The operation declares its own, non-empty security requirement.
OwnSecurity(operationObject) ==
  /\ Truthy(Get(operationObject, <<"security">>))
  /\ Len(Get(operationObject, <<"security">>).a) > 0

\* Object.keys(_operationObject.security[0])[0]
FirstSchemeName(operationObject) ==
  LET first == Get(operationObject, <<"security">>).a[1]
  IN IF Len(Entries(first)) = 0 THEN Undefined ELSE Str(Entries(first)[1].k)

\* The scheme lines 564-571 select: the operation's first scheme, else the
\* first supported scheme of the spec, else none.
SelectAuth(request) ==
  IF OwnSecurity(request.operationObject)
  THEN getScheme(request.global.security, FirstSchemeName(request.operationObject))
  ELSE IF Len(request.global.security.supported) > 0
  THEN request.global.security.supported[1]
  ELSE Undefined

\* Calling getScheme raises a TypeError when the security object has none.
transformOpenapiRequestItemThrows(request) ==
  OwnSecurity(request.operationObject) /\ ~request.global.security.hasGetScheme

\* The auth object lines 573-594 leave behind for the selected scheme.
AuthOf(auth) ==
  IF Truthy(auth) /\ Get(auth, <<"type">>) = S("http") /\ Get(auth, <<"scheme">>) = S("basic")
  THEN [mode |-> S("basic"),
        basic |-> [username |-> Str(<<"{", "{", "username", "}", "}">>),
                   password |-> Str(<<"{", "{", "password", "}", "}">>)],
        bearer |-> Null, digest |-> Null]
  ELSE IF Truthy(auth) /\ Get(auth, <<"type">>) = S("http")
          /\ Get(auth, <<"scheme">>) = S("bearer")
  THEN [mode |-> S("bearer"), basic |-> Null,
        bearer |-> [token |-> Str(<<"{", "{", "token", "}", "}">>)],
        digest |-> Null]
  ELSE [mode |-> S("none"), basic |-> Null, bearer |-> Null, digest |-> Null]

\* The selected scheme is an API key carried in a header.
IsApiKeyHeader(auth) ==
  Truthy(auth) /\ Get(auth, <<"type">>) = S("apiKey") /\ Get(auth, <<"in">>) = S("header")

\* One Field pushed for a parameter of the operation.
OpenapiField(param, id) ==
  [uid |-> uuid(id),
   name |-> Get(param, <<"name">>),
   value |-> Str(<<>>),
   description |-> Or(Get(param, <<"description">>), Str(<<>>)),
   enabled |-> Get(param, <<"required">>)]

\* each(parameters): the params and headers pushed, ids drawn in array order.
RECURSIVE OpenapiParameters(_, _, _, _)
OpenapiParameters(ps, n, params, headers) ==
  IF Len(ps) = 0 THEN [params |-> params, headers |-> headers, n |-> n]
  ELSE IF Get(Head(ps), <<"in">>) = S("query")
  THEN OpenapiParameters(Tail(ps), n + 1, Append(params, OpenapiField(Head(ps), n)), headers)
  ELSE IF Get(Head(ps), <<"in">>) = S("header")
  THEN OpenapiParameters(Tail(ps), n + 1, params, Append(headers, OpenapiField(Head(ps), n)))
  ELSE OpenapiParameters(Tail(ps), n, params, headers)

\* The Fields of a form body: one per schema property, always enabled.
OpenapiFormFields(bodySchema, n) ==
  LET props == IF Truthy(bodySchema) /\ Get(bodySchema, <<"type">>) = S("object")
               THEN Entries(Or(Get(bodySchema, <<"properties">>), Obj(<<>>)))
               ELSE <<>>
  IN [i \in 1..Len(props) |->
        [uid |-> uuid(n + i - 1),
         name |-> Str(props[i].k),
         value |-> Str(<<>>),
         description |-> Or(Get(props[i].v, <<"description">>), Str(<<>>)),
         enabled |-> Bool(TRUE)]]

\* The body lines 597-641 leave behind, ids for form fields drawn from n on.
OpenapiBody(operationObject, n) ==
  LET requestBody == Get(operationObject, <<"requestBody">>)
      found == IF Nullish(requestBody) THEN Undefined ELSE Get(requestBody, <<"content">>)
      content == IF found = Undefined THEN Obj(<<>>) ELSE found
      mimeType == IF Len(Entries(content)) = 0 THEN <<>> ELSE Entries(content)[1].k
      body == Or(Get(content, mimeType), Obj(<<>>))
      bodySchema == Get(body, <<"schema">>)
  IN IF ~Truthy(requestBody) THEN EmptyBody
     ELSE IF mimeType = <<"application", "/", "json">>
     THEN IF Truthy(bodySchema) /\ Get(bodySchema, <<"type">>) = S("object")
          THEN [EmptyBody EXCEPT !.mode = S("json"),
                                 !.json = Str(JsonStringify(buildEmptyJsonBody(bodySchema), 0))]
          ELSE [EmptyBody EXCEPT !.mode = S("json")]
     ELSE IF mimeType = <<"application", "/", "x-www-form-urlencoded">>
     THEN [EmptyBody EXCEPT !.mode = S("formUrlEncoded"),
                            !.formUrlEncoded = OpenapiFormFields(bodySchema, n)]
     ELSE IF mimeType = <<"multipart", "/", "form-data">>
     THEN [EmptyBody EXCEPT !.mode = S("multipartForm"),
                            !.multipartForm = OpenapiFormFields(bodySchema, n)]
     ELSE IF mimeType = <<"text", "/", "plain">>
     THEN [EmptyBody EXCEPT !.mode = S("text"), !.text = Str(<<>>)]
     ELSE IF mimeType = <<"text", "/", "xml">>
     THEN [EmptyBody EXCEPT !.mode = S("xml"), !.xml = Str(<<>>)]
     ELSE EmptyBody

\* `${request.method} ${request.path}` when the operation has no id, summary
\* or description.
OperationName(request) ==
  LET op == request.operationObject
      named == Or(Or(Get(op, <<"operationId">>), Get(op, <<"summary">>)),
                  Get(op, <<"description">>))
  IN IF Truthy(named) THEN named
     ELSE Str(request.method \o <<" ">> \o request.path)

\* transformOpenapiRequestItem(request) with n ids handed out before the call
\* (it does not throw): the item, and the ids handed out after it.  Ids are
\* drawn in the code's order: the item, the parameters, the API key header,
\* the form fields.
transformOpenapiRequestItem(request, n) ==
  LET op == request.operationObject
      listed == Or(Get(op, <<"parameters">>), Arr(<<>>))
      ps == OpenapiParameters(listed.a, n + 1, <<>>, <<>>)
      auth == SelectAuth(request)
      keyHeader ==
        IF IsApiKeyHeader(auth)
        THEN <<[uid |-> uuid(ps.n),
                name |-> Get(auth, <<"name">>),
                value |-> Str(<<"{", "{", "apiKey", "}", "}">>),
                description |-> S("Authentication header"),
                enabled |-> Bool(TRUE)]>>
        ELSE <<>>
      nBody == ps.n + Len(keyHeader)
      body == OpenapiBody(op, nBody)
  IN [val |->
        [uid |-> uuid(n),
         name |-> OperationName(request),
         type |-> "http-request",
         request |->
           [url |-> Str(ensureUrl(request.global.server \o <<"/">> \o request.path)),
            method |-> Str(ToUpperCase(request.method)),
            auth |-> AuthOf(auth),
            headers |-> ps.headers \o keyHeader,
            params |-> ps.params,
            body |-> body]],
      n |-> nBody + Len(body.formUrlEncoded) + Len(body.multipartForm)]

\* -------------------------------------------------------- OpenAPI tag grouping

\* The index of the group named tag, 0 when there is none.
GroupIndex(groups, tag) ==
  IF \E i \in 1..Len(groups) : groups[i].name = tag
  THEN CHOOSE i \in 1..Len(groups) : groups[i].name = tag
  ELSE 0

\* request.operationObject.tags || []
TagsOf(request) == Or(Get(request.operationObject, <<"tags">>), Arr(<<>>)).a

\* The each() loop of groupRequestsByTags over what is left of the requests.
RECURSIVE GroupLoop(_, _, _)
GroupLoop(requests, groups, ungrouped) ==
  IF Len(requests) = 0 THEN [groups |-> groups, ungrouped |-> ungrouped]
  ELSE
    LET request == Head(requests)
        tags == TagsOf(request)
        at == GroupIndex(groups, tags[1])
    IN IF Len(tags) > 0
       THEN GroupLoop(Tail(requests),
                      IF at = 0
                      THEN Append(groups, [name |-> tags[1], requests |-> <<request>>])
                      ELSE [groups EXCEPT ![at].requests = Append(@, request)],
                      ungrouped)
       ELSE GroupLoop(Tail(requests), groups, Append(ungrouped, request))

\* The each() loop filing a request under every one of its tags.
RECURSIVE FileUnder(_, _, _)
FileUnder(tags, request, groups) ==
  IF Len(tags) = 0 THEN groups
  ELSE FileUnder(Tail(tags), request,
                 IF GroupIndex(groups, Head(tags)) = 0
                 THEN Append(groups, [name |-> Head(tags), requests |-> <<request>>])
                 ELSE [groups EXCEPT ![GroupIndex(groups, Head(tags))].requests =
                                       Append(@, request)])

RECURSIVE GroupLoopEveryTag(_, _, _)
GroupLoopEveryTag(requests, groups, ungrouped) ==
  IF Len(requests) = 0 THEN [groups |-> groups, ungrouped |-> ungrouped]
  ELSE IF Len(TagsOf(Head(requests))) > 0
  THEN GroupLoopEveryTag(Tail(requests),
                         FileUnder(TagsOf(Head(requests)), Head(requests), groups),
                         ungrouped)
  ELSE GroupLoopEveryTag(Tail(requests), groups, Append(ungrouped, Head(requests)))

\* groupRequestsByTags filing a request under each of its tags.
groupRequestsByEveryTag(requests) == GroupLoopEveryTag(requests, <<>>, <<>>)

\* groupRequestsByTags(requests): [groups, ungrouped].
groupRequestsByTags(requests) == GroupLoop(requests, <<>>, <<>>)

\* requests.map(transformOpenapiRequestItem), ids drawn from n on.
RECURSIVE TransformAll(_, _)
TransformAll(requests, n) ==
  IF Len(requests) = 0 THEN [val |-> <<>>, n |-> n]
  ELSE LET first == transformOpenapiRequestItem(Head(requests), n)
           rest == TransformAll(Tail(requests), first.n)
       IN [val |-> <<first.val>> \o rest.val, n |-> rest.n]

\* groups.map(...): one folder per group, its id drawn before its items are
\* built.
RECURSIVE brunoFolders(_, _)
brunoFolders(groups, n) ==
  IF Len(groups) = 0 THEN [val |-> <<>>, n |-> n]
  ELSE LET items == TransformAll(Head(groups).requests, n + 1)
           rest == brunoFolders(Tail(groups), items.n)
       IN [val |-> <<[uid |-> uuid(n), name |-> Head(groups).name, type |-> "folder",
                      items |-> items.val]>> \o rest.val,
           n |-> rest.n]

\* brunoFolders.concat(ungroupedItems)
brunoCollectionItems(groups, ungrouped, n) ==
  brunoFolders(groups, n).val \o TransformAll(ungrouped, brunoFolders(groups, n).n).val

\* serverObject.url: the servers of the inputs declare no variables.
getDefaultUrl(serverObject) == Get(serverObject, <<"url">>).s

\* The operation descriptors of the path map: every path, every method key
\* of it that is an HTTP method, in source order.
RECURSIVE OperationsOfPath(_, _, _)
OperationsOfPath(path, ms, global) ==
  IF Len(ms) = 0 THEN <<>>
  ELSE (IF ToLowerCase(Head(ms).k) \in methods
        THEN <<[method |-> Head(ms).k, path |-> path, operationObject |-> Head(ms).v,
                global |-> global]>>
        ELSE <<>>)
       \o OperationsOfPath(path, Tail(ms), global)

RECURSIVE OperationsOfPaths(_, _)
OperationsOfPaths(ps, global) ==
  IF Len(ps) = 0 THEN <<>>
  ELSE OperationsOfPath(Head(ps).k, Entries(Head(ps).v), global)
         \o OperationsOfPaths(Tail(ps), global)

\* allRequests of a resolved OpenAPI document.
allRequests(collectionData) ==
  LET servers == Or(Get(collectionData, <<"servers">>), Arr(<<>>)).a
      baseUrl == IF Len(servers) > 0 THEN getDefaultUrl(servers[1]) ELSE <<>>
  IN OperationsOfPaths(Entries(Get(collectionData, <<"paths">>)),
                       [server |-> baseUrl, security |-> getSecurity(collectionData)])

\* ------------------------------------------------------------------- inputs

\* Names of declared query parameters, headers and form properties.
FieldNames == <<"page", "size", "sort", "lang">>

\* What a RAML document declares for one parameter: nothing, required or
\* not, a description and an example, or no value at all ("page:").
FieldProps ==
  {Obj(<<>>),
   Obj(<<KV(<<"required">>, Bool(TRUE))>>),
   Obj(<<KV(<<"required">>, Bool(FALSE)), KV(<<"description">>, S("d")),
         KV(<<"example">>, S("e"))>>),
   Null}

\* The maps of at most MaxFields declared parameters.
FieldMaps ==
  UNION {{Obj([i \in 1..len |-> KV(<<FieldNames[i]>>, f[i])]) :
            f \in [1..len -> FieldProps]} : len \in 0..MaxFields}

MimeJson == <<"application", "/", "json">>
MimeForm == <<"application", "/", "x-www-form-urlencoded">>
MimeMultipart == <<"multipart", "/", "form-data">>
MimeText == <<"text", "/", "plain">>
MimeOctet == <<"application", "/", "octet-stream">>

\* The body maps of an operation.
Bodies ==
  {Obj(<<KV(MimeJson, Obj(<<KV(<<"example">>, S("{}"))>>))>>),
   Obj(<<KV(MimeJson, Obj(<<>>)), KV(<<"example">>, S("{}"))>>),
   Obj(<<KV(MimeText, Obj(<<>>)), KV(MimeJson, Obj(<<>>))>>),
   Obj(<<KV(MimeJson, Null)>>),
   Obj(<<KV(MimeOctet, Obj(<<>>))>>),
   Obj(<<KV(<<"mediaType">>, Obj(<<KV(<<"example">>, S("x"))>>)),
         KV(MimeText, Obj(<<>>))>>)}
  \cup {Obj(<<KV(MimeForm, Obj(<<KV(<<"properties">>, fm)>>))>>) : fm \in FieldMaps}
  \cup {Obj(<<KV(MimeMultipart, Obj(<<>>)), KV(<<"properties">>, fm)>>) : fm \in FieldMaps}

\* An object of the entries whose value is present.
Compact(e) == Obj(SelectSeq(e, LAMBDA x : x.v # Undefined))

\* The operation nodes: the value of a method key.
Operations ==
  {Null, Obj(<<>>),
   Obj(<<KV(<<"displayName">>, S("List")), KV(<<"description">>, S("doc"))>>)}
  \cup {Compact(<<KV(<<"queryParameters">>, fm)>>) : fm \in FieldMaps}
  \cup {Compact(<<KV(<<"headers">>, fm)>>) : fm \in FieldMaps}
  \cup {Compact(<<KV(<<"body">>, b)>>) : b \in Bodies}
  \cup {Obj(<<KV(<<"queryParameters">>,
                 Obj(<<KV(<<"page">>, Obj(<<KV(<<"required">>, Bool(TRUE))>>))>>)),
            KV(<<"headers">>,
                 Obj(<<KV(<<"size">>, Obj(<<KV(<<"required">>, Bool(FALSE))>>))>>)),
            KV(<<"body">>,
                 Obj(<<KV(MimeForm, Obj(<<>>)),
                       KV(<<"properties">>,
                            Obj(<<KV(<<"sort">>,
                                     Obj(<<KV(<<"required">>, Bool(TRUE))>>))>>))>>))>>)}

\* The resource key of each nesting level.
ResourceKeys ==
  <<<<"/", "pets">>, <<"/", "{", "id", "}">>, <<"/", "owner">>,
    <<"/", "{", "oid", "}">>>>

\* The resource node of a level: one method, and the next level below it.
RECURSIVE Resource(_, _, _, _)
Resource(level, depth, method, op) ==
  Obj(<<KV(method, op)>>
      \o (IF level < depth
          THEN <<KV(ResourceKeys[level + 1], Resource(level + 1, depth, method, op))>>
          ELSE <<>>))

\* The document's own keys: title, baseUri, mediaType.
Metas ==
  {<<>>,
   <<KV(<<"title">>, S("Pets")), KV(<<"baseUri">>, Str(<<"http", ":", "/", "/", "api">>))>>,
   <<KV(<<"baseUri">>, Str(<<"http", ":", "/", "/", "api", "/">>)),
     KV(<<"mediaType">>, Str(MimeJson))>>,
   <<KV(<<"mediaType">>, Str(MimeOctet))>>}

\* The method key the resources of a document use, by the document's keys.
MethodKey(meta) == IF Len(meta) = 1 THEN <<"POST">> ELSE <<"get">>

\* The parsed documents: RAML trees of every depth up to MaxDepth, a tree with
\* an empty resource ("/pets:"), and an empty file (undefined).
Docs ==
  {Obj(meta \o (IF depth = 0 THEN <<>>
                ELSE <<KV(ResourceKeys[1], Resource(1, depth, MethodKey(meta), op))>>)) :
     meta \in Metas, depth \in 0..MaxDepth, op \in Operations}
  \cup {Obj(<<KV(ResourceKeys[1], Null)>>), Undefined}

\* A selected file: its text parses as YAML to data, or does not parse.
Files ==
  {[ok |-> TRUE, data |-> d] : d \in Docs} \cup {[ok |-> FALSE, data |-> Undefined]}

\* ------------------------------------------------------- the import pipeline

VARIABLES
  pc,          \* where the promise chain of importCollection stands
  running,     \* the stages in progress: started and not yet settled
  started,     \* the stages started so far, in order
  file,        \* the selected file
  data,        \* what readFile resolved with
  collection,  \* the collection passed down the chain
  validated,   \* what validateSchema returned
  err,         \* the rejection travelling to the catch handler
  settled,     \* the calls of the outer promise's resolve / reject, in order
  result,      \* what the outer promise resolved with
  rejection,   \* what the outer promise rejected with
  nextId       \* the ids uuid() has handed out

vars ==
  <<pc, running, started, file, data, collection, validated, err, settled,
    result, rejection, nextId>>

\* The OpenAPI branch (lines 769-825, disabled in parseRamlCollection) and
\* resolveRefs, applied to inputs of their own.
VARIABLES
  oPc,                \* where the OpenAPI branch stands
  collectionData,     \* the resolved OpenAPI document
  requests,           \* allRequests
  groups,             \* the groups of groupRequestsByTags
  ungroupedRequests,  \* its ungrouped requests
  brunoItems,         \* brunoCollectionItems
  rPc,                \* whether resolveRefs has been applied
  rSpec,              \* the node resolveRefs is applied to
  rComponents,        \* the components index it is given
  rResult             \* what it returned, or the TypeError it raised

ovars == <<oPc, collectionData, requests, groups, ungroupedRequests, brunoItems>>

rvars == <<rPc, rSpec, rComponents, rResult>>

\* ensureUrl applied to a url of its own, and the RequestHeaders component.
VARIABLES
  uPc,           \* whether ensureUrl has been applied
  uBaseUri,      \* the base URI of the request
  uPath,         \* its accumulated path
  uUrl,          \* the url of the request item
  initialState,  \* the module-level array of RequestHeaders
  mounted,       \* the instances of RequestHeaders rendered so far
  headersState,  \* the array each instance's useState cell holds
  nanoids        \* the ids nanoid() has handed out

uvars == <<uPc, uBaseUri, uPath, uUrl>>

hvars == <<initialState, mounted, headersState, nanoids>>

others == <<ovars, rvars, uvars, hvars>>

allVars == <<vars, ovars, rvars, uvars, hvars>>

\* The OpenAPI branch is not run.
OpenapiIdle ==
  /\ oPc = "off"
  /\ collectionData = Undefined
  /\ requests = <<>>
  /\ groups = <<>>
  /\ ungroupedRequests = <<>>
  /\ brunoItems = <<>>

\* resolveRefs is not run.
RefsIdle ==
  /\ rPc = "off"
  /\ rSpec = Undefined
  /\ rComponents = Undefined
  /\ rResult = Undefined

\* ensureUrl is not run.
UrlIdle ==
  /\ uPc = "off"
  /\ uBaseUri = <<>>
  /\ uPath = <<>>
  /\ uUrl = <<>>

\* const initialState = [{ uid: nanoid(), enabled: true }]
InitialRows == <<[uid |-> 0, enabled |-> TRUE]>>

\* The module is loaded and no RequestHeaders is rendered.
HeadersIdle ==
  /\ initialState = InitialRows
  /\ mounted = {}
  /\ headersState = <<>>
  /\ nanoids = 1

Stages ==
  <<"fileDialog", "readFile", "parseRamlCollection", "transformItemsInCollection",
    "hydrateSeqInCollection", "validateSchema">>

\* Nothing yet: no file, no collection, no error.
Nothing == [kind |-> "nothing"]

\* new BrunoError(message)
BrunoError(message) == [kind |-> "BrunoError", message |-> message]

\* err.message as the string concatenation reads it.
MessageOf(e) == IF "message" \in DOMAIN e THEN e.message ELSE <<"undefined">>

\* No import has been started.
ImportIdle ==
  /\ pc = "idle"
  /\ running = {}
  /\ started = <<>>
  /\ file = Nothing
  /\ data = Undefined
  /\ collection = Nothing
  /\ validated = Nothing
  /\ err = Nothing
  /\ settled = <<>>
  /\ result = Nothing
  /\ rejection = Nothing
  /\ nextId = 0

Init == ImportIdle /\ OpenapiIdle /\ RefsIdle /\ UrlIdle /\ HeadersIdle

\* importCollection(): the executor calls fileDialog.
ImportCollection ==
  /\ UNCHANGED others
  /\ pc = "idle"
  /\ pc' = "fileDialog"
  /\ running' = running \cup {"fileDialog"}
  /\ started' = Append(started, "fileDialog")
  /\ UNCHANGED <<file, data, collection, validated, err, settled, result,
                 rejection, nextId>>

\* The dialog's promise resolves with the file the user picked.
FileDialogResolve ==
  /\ UNCHANGED others
  /\ pc = "fileDialog"
  /\ \E f \in Files : file' = f
  /\ pc' = "readFile"
  /\ running' = running \ {"fileDialog"}
  /\ UNCHANGED <<started, data, collection, validated, err, settled, result,
                 rejection, nextId>>

\* readFile(files): fileReader.readAsText(files[0]).
ReadFile ==
  /\ UNCHANGED others
  /\ pc = "readFile"
  /\ pc' = "reading"
  /\ running' = running \cup {"readFile"}
  /\ started' = Append(started, "readFile")
  /\ UNCHANGED <<file, data, collection, validated, err, settled, result,
                 rejection, nextId>>

\* fileReader.onload: the text parses and readFile resolves with the data, or
\* jsyaml throws and it rejects with a BrunoError.
ReadFileOnload ==
  /\ UNCHANGED others
  /\ pc = "reading"
  /\ running' = running \ {"readFile"}
  /\ IF file.ok
     THEN /\ data' = file.data
          /\ pc' = "parseRamlCollection"
          /\ err' = err
     ELSE /\ err' = BrunoError(<<"Import collection failed">>)
          /\ pc' = "catch"
          /\ data' = data
  /\ UNCHANGED <<started, file, collection, validated, settled, result,
                 rejection, nextId>>

\* fileReader.onerror: readFile rejects with the reader's event.
ReadFileOnerror ==
  /\ UNCHANGED others
  /\ pc = "reading"
  /\ running' = running \ {"readFile"}
  /\ err' = [kind |-> "ProgressEvent"]
  /\ pc' = "catch"
  /\ UNCHANGED <<started, file, data, collection, validated, settled, result,
                 rejection, nextId>>

\* The ids the walk of parseRamlCollection has handed out when it returns.
parseRamlCollectionIds(d, n) ==
  transformRamlNode(d, <<>>, <<>>, Get(d, <<"mediaType">>), NoFolder, n + 1).n

\* ParseRamlCollection chained without waiting for the file reader: it runs
\* while readFile is still reading.
ParseRamlCollectionEarly ==
  /\ UNCHANGED others
  /\ pc \in {"reading", "parseRamlCollection"}
  /\ started' = Append(started, "parseRamlCollection")
  /\ IF parseRamlCollectionThrows(data)
     THEN /\ err' = BrunoError(<<"An error occurred while parsing the RAML collection">>)
          /\ pc' = "catch"
          /\ UNCHANGED <<collection, nextId>>
     ELSE /\ collection' = parseRamlCollection(data, nextId)
          /\ nextId' = parseRamlCollectionIds(data, nextId)
          /\ pc' = "transformItemsInCollection"
          /\ err' = err
  /\ UNCHANGED <<running, file, data, validated, settled, result, rejection>>

\* parseRamlCollection(data): synchronous, it resolves with the collection or
\* rejects with a BrunoError when the walk throws.
ParseRamlCollection ==
  /\ UNCHANGED others
  /\ pc = "parseRamlCollection"
  /\ started' = Append(started, "parseRamlCollection")
  /\ IF parseRamlCollectionThrows(data)
     THEN /\ err' = BrunoError(<<"An error occurred while parsing the RAML collection">>)
          /\ pc' = "catch"
          /\ UNCHANGED <<collection, nextId>>
     ELSE /\ collection' = parseRamlCollection(data, nextId)
          /\ nextId' = parseRamlCollectionIds(data, nextId)
          /\ pc' = "transformItemsInCollection"
          /\ err' = err
  /\ UNCHANGED <<running, file, data, validated, settled, result, rejection>>

\* A stage of ./common: it returns a collection or throws.
CommonStage(stage, next) ==
  /\ UNCHANGED others
  /\ pc = stage
  /\ started' = Append(started, stage)
  /\ \/ /\ pc' = next
        /\ err' = err
     \/ /\ pc' = "catch"
        /\ err' = [kind |-> "Error", message |-> <<stage, " failed">>]
  /\ UNCHANGED <<running, file, data, collection, settled, result, rejection, nextId>>

TransformItemsInCollection ==
  /\ CommonStage("transformItemsInCollection", "hydrateSeqInCollection")
  /\ UNCHANGED validated

HydrateSeqInCollection ==
  /\ CommonStage("hydrateSeqInCollection", "validateSchema")
  /\ UNCHANGED validated

ValidateSchema ==
  /\ CommonStage("validateSchema", "resolve")
  /\ validated' = IF pc' = "resolve" THEN collection ELSE validated

\* .then((collection) => resolve(collection))
ThenResolve ==
  /\ UNCHANGED others
  /\ pc = "resolve"
  /\ settled' = Append(settled, "resolve")
  /\ result' = collection
  /\ pc' = "done"
  /\ UNCHANGED <<running, started, file, data, collection, validated, err,
                 rejection, nextId>>

\* Catch passing the error on as it came: reject(err).
CatchUnwrapped ==
  /\ UNCHANGED others
  /\ pc = "catch"
  /\ settled' = Append(settled, "reject")
  /\ rejection' = err
  /\ pc' = "done"
  /\ UNCHANGED <<running, started, file, data, collection, validated, err,
                 result, nextId>>

\* .catch((err) => reject(new BrunoError('Import collection failed: ' + err.message)))
Catch ==
  /\ UNCHANGED others
  /\ pc = "catch"
  /\ settled' = Append(settled, "reject")
  /\ rejection' = BrunoError(<<"Import collection failed", ": ">> \o MessageOf(err))
  /\ pc' = "done"
  /\ UNCHANGED <<running, started, file, data, collection, validated, err,
                 result, nextId>>

Next ==
  \/ ImportCollection
  \/ FileDialogResolve
  \/ ReadFile
  \/ ReadFileOnload
  \/ ReadFileOnerror
  \/ ParseRamlCollection
  \/ TransformItemsInCollection
  \/ HydrateSeqInCollection
  \/ ValidateSchema
  \/ ThenResolve
  \/ Catch

Spec == Init /\ [][Next]_allVars

\* ---------------------------------------------------------- the OpenAPI branch

\* Most operations of an input OpenAPI document.
MaxOps == 3

SchemeBasic == Obj(<<KV(<<"type">>, S("http")), KV(<<"scheme">>, S("basic"))>>)
SchemeBearer == Obj(<<KV(<<"type">>, S("http")), KV(<<"scheme">>, S("bearer"))>>)
SchemeApiKey ==
  Obj(<<KV(<<"type">>, S("apiKey")), KV(<<"in">>, S("header")),
        KV(<<"name">>, S("X-API-Key"))>>)

\* components.securitySchemes of the inputs.
SecuritySchemes ==
  Obj(<<KV(<<"basicAuth">>, SchemeBasic), KV(<<"bearerAuth">>, SchemeBearer),
        KV(<<"keyAuth">>, SchemeApiKey),
        KV(<<"oauth">>, Obj(<<KV(<<"type">>, S("oauth2"))>>))>>)

\* A security requirement list naming one scheme.
Requires(scheme) == Arr(<<Obj(<<KV(<<scheme>>, Arr(<<>>))>>)>>)

\* The spec-wide security list: absent, empty, or one named scheme.
SpecSecurity ==
  {Undefined, Arr(<<>>), Requires("basicAuth"), Requires("bearerAuth"), Requires("keyAuth")}

\* The security an operation declares: none, an empty list, or one scheme
\* (the last is in no scheme index).
OperationSecurity ==
  {Undefined, Arr(<<>>), Requires("bearerAuth"), Requires("basicAuth"),
   Requires("keyAuth"), Requires("unknown")}

\* The tags an operation declares.
OperationTags ==
  {Undefined, Arr(<<>>), Arr(<<S("Users")>>), Arr(<<S("Pets"), S("Users")>>)}

\* The path and method of each operation of a document.
OperationPlaces ==
  <<[path |-> <<"/", "users">>, method |-> <<"get">>],
    [path |-> <<"/", "users">>, method |-> <<"post">>],
    [path |-> <<"/", "pets", "/", "{", "id", "}">>, method |-> <<"get">>],
    [path |-> <<"/", "pets", "/", "{", "id", "}">>, method |-> <<"put">>]>>

\* What else each operation declares: parameters, or a request body.
OperationExtras ==
  <<<<KV(<<"operationId">>, S("listUsers")),
      KV(<<"parameters">>,
         Arr(<<Obj(<<KV(<<"in">>, S("query")), KV(<<"name">>, S("page")),
                     KV(<<"required">>, Bool(FALSE))>>),
               Obj(<<KV(<<"in">>, S("path")), KV(<<"name">>, S("id"))>>),
               Obj(<<KV(<<"in">>, S("header")), KV(<<"name">>, S("X-Trace"))>>)>>))>>,
    <<KV(<<"summary">>, S("Create user")),
      KV(<<"requestBody">>,
         Obj(<<KV(<<"content">>,
                  Obj(<<KV(MimeJson,
                           Obj(<<KV(<<"schema">>,
                                    Obj(<<KV(<<"type">>, S("object")),
                                          KV(<<"properties">>,
                                             Obj(<<KV(<<"id">>, Obj(<<KV(<<"type">>, S("string"))>>)),
                                                   KV(<<"tags">>, Obj(<<KV(<<"type">>, S("array"))>>))>>))>>))>>))>>))>>))>>,
    <<KV(<<"requestBody">>,
         Obj(<<KV(<<"content">>,
                  Obj(<<KV(MimeForm,
                           Obj(<<KV(<<"schema">>,
                                    Obj(<<KV(<<"type">>, S("object")),
                                          KV(<<"properties">>,
                                             Obj(<<KV(<<"name">>, Obj(<<>>)),
                                                   KV(<<"age">>, Obj(<<>>))>>))>>))>>))>>))>>))>>,
    <<KV(<<"description">>, S("Replace pet")),
      KV(<<"requestBody">>,
         Obj(<<KV(<<"content">>, Obj(<<KV(<<"text", "/", "xml">>, Obj(<<>>))>>))>>))>>>>

\* The operation object at place i, with the tags and security given.
OperationObject(i, tags, security) ==
  Compact(<<KV(<<"tags">>, tags), KV(<<"security">>, security)>> \o OperationExtras[i])

\* The method entries of path among the first n operations.
MethodsOf(path, n, tags, security) ==
  LET at == SelectSeq([i \in 1..n |-> i], LAMBDA i : OperationPlaces[i].path = path)
  IN Obj([j \in 1..Len(at) |->
            KV(OperationPlaces[at[j]].method, OperationObject(at[j], tags[at[j]], security))])

\* The path map of the first n operations: each path once, in source order.
PathsOf(n, tags, security) ==
  LET firsts == SelectSeq([i \in 1..n |-> i],
                          LAMBDA i : \A j \in 1..(i - 1) :
                                       OperationPlaces[j].path # OperationPlaces[i].path)
  IN Obj([j \in 1..Len(firsts) |->
            KV(OperationPlaces[firsts[j]].path,
               MethodsOf(OperationPlaces[firsts[j]].path, n, tags, security))])

\* A resolved OpenAPI v3 document of n operations.
ApiSpec(n, tags, security, specSecurity, components) ==
  Compact(<<KV(<<"openapi">>, S("3")),
            KV(<<"info">>, Obj(<<KV(<<"title">>, S("Users"))>>)),
            KV(<<"servers">>,
               Arr(<<Obj(<<KV(<<"url">>, Str(<<"http", ":", "/", "/", "api", "/">>))>>)>>)),
            KV(<<"security">>, specSecurity),
            KV(<<"components">>, components),
            KV(<<"paths">>, PathsOf(n, tags, security))>>)

\* The spec-wide security list with the components it comes with: the scheme
\* index, or no components at all.
SecurityContexts ==
  {<<s, Obj(<<KV(<<"securitySchemes">>, SecuritySchemes)>>)>> : s \in SpecSecurity}
  \cup {<<Undefined, Undefined>>, <<Requires("basicAuth"), Undefined>>}

\* The documents: up to MaxOps operations; every tagging of the operations
\* under two security settings, and every security setting under two taggings.
ApiSpecs ==
  {ApiSpec(n, tags, sec[1], sec[2], Obj(<<KV(<<"securitySchemes">>, SecuritySchemes)>>)) :
     n \in 1..MaxOps, tags \in [1..MaxOps -> OperationTags],
     sec \in {<<Undefined, Requires("basicAuth")>>,
              <<Requires("bearerAuth"), Requires("keyAuth")>>}}
  \cup
  {ApiSpec(n, tags, security, context[1], context[2]) :
     n \in 1..MaxOps,
     tags \in {[i \in 1..MaxOps |-> Arr(<<S("Users")>>)],
               [i \in 1..MaxOps |-> IF i = 1 THEN Undefined ELSE Arr(<<S("Pets"), S("Users")>>)]},
     security \in OperationSecurity, context \in SecurityContexts}

InitOpenapi ==
  /\ ImportIdle
  /\ RefsIdle
  /\ UrlIdle
  /\ HeadersIdle
  /\ oPc = "collect"
  /\ collectionData \in ApiSpecs
  /\ requests = <<>>
  /\ groups = <<>>
  /\ ungroupedRequests = <<>>
  /\ brunoItems = <<>>

\* Lines 786-810: the security index and the operation descriptors.
OpenapiCollect ==
  /\ oPc = "collect"
  /\ requests' = allRequests(collectionData)
  /\ oPc' = "group"
  /\ UNCHANGED <<collectionData, groups, ungroupedRequests, brunoItems>>
  /\ UNCHANGED <<vars, rvars, uvars, hvars>>

\* Line 812: let [groups, ungroupedRequests] = groupRequestsByTags(allRequests).
OpenapiGroup ==
  /\ oPc = "group"
  /\ groups' = groupRequestsByTags(requests).groups
  /\ ungroupedRequests' = groupRequestsByTags(requests).ungrouped
  /\ oPc' = "transform"
  /\ UNCHANGED <<collectionData, requests, brunoItems>>
  /\ UNCHANGED <<vars, rvars, uvars, hvars>>

\* Lines 813-824: the folders and the ungrouped items; the first
\* transformOpenapiRequestItem that throws ends the branch in the catch block.
OpenapiTransform ==
  /\ oPc = "transform"
  /\ IF \E i \in 1..Len(requests) : transformOpenapiRequestItemThrows(requests[i])
     THEN /\ oPc' = "thrown"
          /\ brunoItems' = brunoItems
     ELSE /\ oPc' = "done"
          /\ brunoItems' = brunoCollectionItems(groups, ungroupedRequests, 1)
  /\ UNCHANGED <<collectionData, requests, groups, ungroupedRequests>>
  /\ UNCHANGED <<vars, rvars, uvars, hvars>>

NextOpenapi ==
  \/ OpenapiCollect
  \/ OpenapiGroup
  \/ OpenapiTransform

SpecOpenapi == InitOpenapi /\ [][NextOpenapi]_allVars

\* ------------------------------------------------------------------ resolveRefs

\* The TypeError of a property read on undefined or null.
TypeError == [t |-> "TypeError"]

RefPrefix == <<"#", "/", "components", "/">>

\* refPath.replace('#/components/', '').split('/')
RefKeys(refPath) == Split(SubSeq(refPath, Len(RefPrefix) + 1, Len(refPath)), "/")

\* The for loop over refKeys: the value reached, the node itself when a key
\* reads falsy, a TypeError when the index walked is undefined or null.
RECURSIVE WalkRef(_, _, _)
WalkRef(ref, refKeys, spec) ==
  IF Len(refKeys) = 0 THEN [found |-> TRUE, ref |-> ref]
  ELSE IF Nullish(ref) THEN [found |-> FALSE, ref |-> TypeError]
  ELSE IF Truthy(Get(ref, Head(refKeys)))
  THEN WalkRef(Get(ref, Head(refKeys)), Tail(refKeys), spec)
  ELSE [found |-> FALSE, ref |-> spec]

\* The first TypeError among the values, if any.
Raised(values) == \E i \in 1..Len(values) : values[i] = TypeError

\* resolveRefs(spec, components)
RECURSIVE resolveRefs(_, _)
resolveRefs(spec, components) ==
  IF ~Truthy(spec) \/ spec.t \notin {"obj", "arr"} THEN spec
  ELSE IF spec.t = "arr"
  THEN LET items == [i \in 1..Len(spec.a) |-> resolveRefs(spec.a[i], components)]
       IN IF Raised(items) THEN TypeError ELSE Arr(items)
  ELSE IF HasKey(spec, <<"$ref">>) /\ StartsWith(Get(spec, <<"$ref">>).s, RefPrefix)
  THEN LET walk == WalkRef(components, RefKeys(Get(spec, <<"$ref">>).s), spec)
       IN IF walk.found THEN resolveRefs(walk.ref, components) ELSE walk.ref
  ELSE LET props == [i \in 1..Len(spec.e) |-> resolveRefs(spec.e[i].v, components)]
       IN IF Raised(props) THEN TypeError
          ELSE Obj([i \in 1..Len(spec.e) |-> KV(spec.e[i].k, props[i])])

\* resolveRefs(spec): components defaults to spec.components, read before
\* the guard on spec.
resolveRefsDefault(spec) ==
  IF Nullish(spec) THEN TypeError ELSE resolveRefs(spec, Get(spec, <<"components">>))

\* A $ref node.
Ref(refPath) == Obj(<<KV(<<"$ref">>, Str(refPath))>>)

PetSchema ==
  Obj(<<KV(<<"type">>, S("object")),
        KV(<<"properties">>, Obj(<<KV(<<"name">>, Obj(<<KV(<<"type">>, S("string"))>>))>>)),
        KV(<<"nullable">>, Bool(FALSE))>>)

\* A schema that refers to another one, and to one that does not exist.
OwnerSchema ==
  Obj(<<KV(<<"type">>, S("object")),
        KV(<<"properties">>,
           Obj(<<KV(<<"pet">>, Ref(RefPrefix \o <<"schemas", "/", "Pet">>)),
                 KV(<<"pets">>, Arr(<<Ref(RefPrefix \o <<"schemas", "/", "Pet">>)>>)),
                 KV(<<"car">>, Ref(RefPrefix \o <<"schemas", "/", "Car">>))>>))>>)

\* The components indexes: with schemas, without, empty, and none at all.
ComponentsIndexes ==
  {Obj(<<KV(<<"schemas">>, Obj(<<KV(<<"Pet">>, PetSchema), KV(<<"Owner">>, OwnerSchema)>>))>>),
   Obj(<<KV(<<"schemas">>, Obj(<<KV(<<"Pet">>, PetSchema)>>)),
         KV(<<"examples">>, Obj(<<KV(<<"empty">>, Str(<<>>))>>))>>),
   Obj(<<KV(<<"parameters">>, Obj(<<>>))>>),
   Obj(<<>>),
   Undefined}

\* The $ref targets: local ones that exist, local ones that do not, one whose
\* content is false, one whose content is the empty string, and ones outside
\* the components.
RefPaths ==
  {RefPrefix \o <<"schemas", "/", "Pet">>,
   RefPrefix \o <<"schemas", "/", "Owner">>,
   RefPrefix \o <<"schemas", "/", "Pet", "/", "properties", "/", "name">>,
   RefPrefix \o <<"schemas", "/", "Car">>,
   RefPrefix \o <<"responses", "/", "NotFound">>,
   RefPrefix \o <<"schemas", "/", "Pet", "/", "nullable">>,
   RefPrefix \o <<"examples", "/", "empty">>,
   RefPrefix,
   <<"#", "/", "definitions", "/", "Pet">>,
   <<"other.yaml", "#", "/", "components", "/", "schemas", "/", "Pet">>}

\* The nodes resolveRefs is applied to: a $ref node, one under a key, one in
\* an array, and plain values.
RefNodes ==
  UNION {{Ref(r),
          Obj(<<KV(<<"schema">>, Ref(r)), KV(<<"description">>, S("ok"))>>),
          Arr(<<S("x"), Ref(r)>>)} : r \in RefPaths}
  \cup {S("x"), Null, Obj(<<>>)}

InitRefs ==
  /\ ImportIdle
  /\ OpenapiIdle
  /\ UrlIdle
  /\ HeadersIdle
  /\ rPc = "call"
  /\ rSpec \in RefNodes
  /\ rComponents \in ComponentsIndexes
  /\ rResult = Undefined

\* resolveRefs(rSpec, rComponents), as the recursion calls it.
ResolveRefs ==
  /\ rPc = "call"
  /\ rResult' = resolveRefs(rSpec, rComponents)
  /\ rPc' = "returned"
  /\ UNCHANGED <<rSpec, rComponents>>
  /\ UNCHANGED <<vars, ovars, uvars, hvars>>

\* resolveRefs(data) of a document that holds rSpec under its paths and
\* rComponents as its components (none when undefined).
RefDocument ==
  Compact(<<KV(<<"components">>, rComponents), KV(<<"paths">>, Obj(<<KV(<<"x">>, rSpec)>>))>>)

ResolveRefsOfDocument ==
  /\ rPc = "call"
  /\ rResult' = (IF resolveRefsDefault(RefDocument) = TypeError THEN TypeError
                 ELSE Get(Get(resolveRefsDefault(RefDocument), <<"paths">>), <<"x">>))
  /\ rPc' = "returnedOfDocument"
  /\ UNCHANGED <<rSpec, rComponents>>
  /\ UNCHANGED <<vars, ovars, uvars, hvars>>

NextRefs ==
  \/ ResolveRefs
  \/ ResolveRefsOfDocument

SpecRefs == InitRefs /\ [][NextRefs]_allVars

\* -------------------------------------------------------------- the request url

MaxUrlLen == 3

\* What a base URI is made of: slashes, colons and words.
UrlSymbols == {"/", ":", "api"}

\* The base URIs: data.baseUri || '{{baseUri}}', so never the empty string.
BaseUris ==
  UNION {[1..len -> UrlSymbols] : len \in 1..MaxUrlLen}
  \cup {<<"http", ":", "/", "/", "api">>, <<"http", ":", "/", "/", "api", "/">>,
        <<"{", "{", "baseUri", "}", "}">>}

\* The accumulated paths of the walk: the empty path of a top-level method
\* key, and resource keys joined after ensureUriParameter.
AccumulatedPaths ==
  {<<>>,
   ensureUriParameter(ResourceKeys[1]),
   ensureUriParameter(ResourceKeys[1]) \o ensureUriParameter(ResourceKeys[2]),
   ensureUriParameter(<<"/", "pets", "/">>) \o ensureUriParameter(ResourceKeys[2])}

InitUrl ==
  /\ ImportIdle
  /\ OpenapiIdle
  /\ RefsIdle
  /\ HeadersIdle
  /\ uPc = "call"
  /\ uBaseUri \in BaseUris
  /\ uPath \in AccumulatedPaths
  /\ uUrl = <<>>

\* url: ensureUrl(baseUri + '/' + path)
EnsureUrl ==
  /\ uPc = "call"
  /\ uUrl' = ensureUrl(uBaseUri \o <<"/">> \o uPath)
  /\ uPc' = "returned"
  /\ UNCHANGED <<uBaseUri, uPath>>
  /\ UNCHANGED <<vars, ovars, rvars, hvars>>

NextUrl == EnsureUrl

SpecUrl == InitUrl /\ [][NextUrl]_allVars

\* ------------------------------------------------- the RequestHeaders component

MaxInstances == 2
MaxAdds == 3

\* The RequestHeaders elements a page can render.
Instances == 1..MaxInstances

\* The array in the useState cell of instance i: the module-level
\* initialState itself until a handler of the instance has set a new array.
HeadersOf(i) == IF headersState[i].own THEN headersState[i].rows ELSE initialState

\* headers.splice(index, 1)
Splice(rows, index) == SubSeq(rows, 1, index) \o SubSeq(rows, index + 2, Len(rows))

InitHeaders ==
  /\ ImportIdle
  /\ OpenapiIdle
  /\ RefsIdle
  /\ UrlIdle
  /\ HeadersIdle

\* First render of an instance: useState(initialState) puts the module-level
\* array, not a copy of it, in the cell.
Mount(i) ==
  /\ i \notin mounted
  /\ mounted' = mounted \cup {i}
  /\ headersState' = headersState @@ (i :> [own |-> FALSE, rows |-> <<>>])
  /\ UNCHANGED <<initialState, nanoids>>
  /\ UNCHANGED <<vars, ovars, rvars, uvars>>

\* addHeader: setHeaders([...headers, newHeader])
addHeader(i) ==
  /\ i \in mounted
  /\ nanoids <= MaxAdds
  /\ headersState' =
       [headersState EXCEPT ![i] =
          [own |-> TRUE,
           rows |-> Append(HeadersOf(i),
                           [uid |-> nanoids, key |-> "", value |-> "",
                            description |-> "", enabled |-> TRUE])]]
  /\ nanoids' = nanoids + 1
  /\ UNCHANGED <<initialState, mounted>>
  /\ UNCHANGED <<vars, ovars, rvars, uvars>>

\* handleRemoveHeader(index), from the remove button of a rendered row:
\* headers.splice(index, 1) changes the array in the cell in place, which is
\* initialState when the cell still holds it; setHeaders([...headers]) then
\* puts a copy in the cell.
handleRemoveHeader(i, index) ==
  /\ i \in mounted
  /\ index \in 0..(Len(HeadersOf(i)) - 1)
  /\ initialState' = IF headersState[i].own THEN initialState
                     ELSE Splice(initialState, index)
  /\ headersState' =
       [headersState EXCEPT ![i] = [own |-> TRUE, rows |-> Splice(HeadersOf(i), index)]]
  /\ UNCHANGED <<mounted, nanoids>>
  /\ UNCHANGED <<vars, ovars, rvars, uvars>>

NextHeaders ==
  \/ \E i \in Instances : Mount(i)
  \/ \E i \in Instances : addHeader(i)
  \/ \E i \in Instances : \E index \in 0..MaxAdds : handleRemoveHeader(i, index)

SpecHeaders == InitHeaders /\ [][NextHeaders]_allVars

\* ------------------------------------------------------ reading a collection

\* Every item of an item tree, folders before what they hold.
RECURSIVE AllItems(_)
AllItems(items) ==
  IF Len(items) = 0 THEN <<>>
  ELSE <<Head(items)>>
         \o (IF Head(items).type = "folder" THEN AllItems(Head(items).items) ELSE <<>>)
         \o AllItems(Tail(items))

RequestItems(items) == SelectSeq(AllItems(items), LAMBDA i : i.type = "http-request")

FolderItems(items) == SelectSeq(AllItems(items), LAMBDA i : i.type = "folder")

\* The Fields of a request: its headers, params and form bodies.
FieldsOf(request) ==
  request.headers \o request.params \o request.body.formUrlEncoded
    \o request.body.multipartForm

\* The uid of each element of a sequence.
UidsIn(seq) == [i \in 1..Len(seq) |-> seq[i].uid]

RECURSIVE Flatten(_)
Flatten(seqs) == IF Len(seqs) = 0 THEN <<>> ELSE Head(seqs) \o Flatten(Tail(seqs))

\* Every uid of an item tree: the folders', the requests', and those of the
\* requests' Fields and uri variables.
ItemUids(items) ==
  UidsIn(AllItems(items))
    \o Flatten([i \in 1..Len(RequestItems(items)) |->
                  UidsIn(FieldsOf(RequestItems(items)[i].request))
                    \o (IF "vars" \in DOMAIN RequestItems(items)[i].request
                        THEN UidsIn(RequestItems(items)[i].request.vars.req)
                        ELSE <<>>)])

Distinct(seq) == \A i, j \in 1..Len(seq) : i # j => seq[i] # seq[j]

\* parseRamlCollection has resolved with a collection.
Parsed == "items" \in DOMAIN collection

\* ---------------------------------------------------------- claims: RAML walk

\* The resource tree { "/pets": { "get": {}, "/{id}": { "get": {} } } }.
PetsDoc ==
  Obj(<<KV(<<"/", "pets">>,
           Obj(<<KV(<<"get">>, Obj(<<>>)),
                 KV(<<"/", "{", "id", "}">>, Obj(<<KV(<<"get">>, Obj(<<>>))>>))>>))>>)

\* The entries of a node that are method keys or resource keys, in order.
WalkedEntries(node) ==
  SelectSeq(Entries(node),
            LAMBDA x : ToLowerCase(x.k) \in methods \/ StartsWith(x.k, <<"/">>))

\* items mirrors node: one request item per method key, one folder per key
\* starting with "/", named after the path segment and mirroring the nested
\* node in turn.
RECURSIVE Mirrors(_, _)
Mirrors(node, items) ==
  /\ Len(items) = Len(WalkedEntries(node))
  /\ \A i \in 1..Len(items) :
       LET x == WalkedEntries(node)[i]
       IN IF ToLowerCase(x.k) \in methods
          THEN /\ items[i].type = "http-request"
               /\ items[i].request.method = Str(ToUpperCase(x.k))
          ELSE /\ items[i].type = "folder"
               /\ items[i].name = Str(Tail(x.k))
               /\ Mirrors(x.v, items[i].items)

\* The structure of Mirrors alone: the folders' names left out.
RECURSIVE MirrorsShape(_, _)
MirrorsShape(node, items) ==
  /\ Len(items) = Len(WalkedEntries(node))
  /\ \A i \in 1..Len(items) :
       LET x == WalkedEntries(node)[i]
       IN IF ToLowerCase(x.k) \in methods
          THEN /\ items[i].type = "http-request"
               /\ items[i].request.method = Str(ToUpperCase(x.k))
          ELSE /\ items[i].type = "folder"
               /\ MirrorsShape(x.v, items[i].items)

\* What the claim says the import of PetsDoc yields.
PetsCollection(items) ==
  /\ Len(items) = 1
  /\ items[1].type = "folder"
  /\ items[1].name = S("pets")
  /\ Len(items[1].items) = 2
  /\ items[1].items[1].type = "http-request"
  /\ items[1].items[1].request.method = S("GET")
  /\ items[1].items[1].request.url = Str(<<"{", "{", "baseUri", "}", "}", "/", "pets">>)
  /\ items[1].items[2].type = "folder"
  /\ items[1].items[2].name = Str(<<"{", "id", "}">>)
  /\ Len(items[1].items[2].items) = 1
  /\ LET r == items[1].items[2].items[1]
     IN /\ r.type = "http-request"
        /\ r.request.method = S("GET")
        /\ r.request.url =
             Str(<<"{", "{", "baseUri", "}", "}", "/", "pets", "/", "{", "{", "id", "}", "}">>)
        /\ Len(r.request.vars.req) = 1
        /\ r.request.vars.req[1].name = Str(<<"{", "{", "id", "}", "}">>)

\* C1: importing PetsDoc yields one folder named pets holding GET /pets and
\* one nested folder named {id} holding GET /pets/{id}, whose vars.req has the
\* one entry {{id}}; and in general every key starting with "/" yields one
\* folder named after that path segment, holding one request item per method
\* key and one nested folder per nested resource key.
C1_RamlNesting ==
  Parsed =>
    /\ data = PetsDoc => PetsCollection(collection.items)
    /\ Mirrors(data, collection.items)

\* C1, the part the code keeps: the nesting, the requests and the uri
\* variable are as claimed, and the folder is named by the key with each "/"
\* replaced by a space (" pets", " {id}").
C1_NestingShape ==
  Parsed =>
    /\ MirrorsShape(data, collection.items)
    /\ \A i \in 1..Len(FolderItems(collection.items)) :
         Head(FolderItems(collection.items)[i].name.s) = " "

\* C3: the body of every request item built from a RAML operation has a mode
\* among the six body modes, exactly the six body keys, and a neutral default
\* in every payload field other than the one its mode names.
C3_BodyShape ==
  Parsed =>
    \A i \in 1..Len(RequestItems(collection.items)) :
      LET b == RequestItems(collection.items)[i].request.body
      IN /\ b.mode \in {S("none"), S("json"), S("text"), S("xml"),
                        S("formUrlEncoded"), S("multipartForm")}
         /\ DOMAIN b = {"mode", "json", "text", "xml", "formUrlEncoded", "multipartForm"}
         /\ \A k \in {"json", "text", "xml"} : b.mode # S(k) => b[k] = Null
         /\ \A k \in {"formUrlEncoded", "multipartForm"} : b.mode # S(k) => Len(b[k]) = 0

\* C5: the enabled flag of every Field of headers, params and form bodies is a
\* boolean.
C5_EnabledIsBoolean ==
  Parsed =>
    \A i \in 1..Len(RequestItems(collection.items)) :
      \A j \in 1..Len(FieldsOf(RequestItems(collection.items)[i].request)) :
        FieldsOf(RequestItems(collection.items)[i].request)[j].enabled
          \in {Bool(TRUE), Bool(FALSE)}

\* C10: the uids of a produced collection (the collection's, the folders', the
\* requests', the Fields' and the uri variables') are pairwise distinct.
C10_UidsDistinct ==
  Parsed => Distinct(<<collection.uid>> \o ItemUids(collection.items))

\* A collection with a nested folder and a request that has a uri variable,
\* a param, a header and a form field.
C10_Witness ==
  /\ Parsed
  /\ Len(FolderItems(collection.items)) >= 2
  /\ \E i \in 1..Len(RequestItems(collection.items)) :
       LET r == RequestItems(collection.items)[i].request
       IN /\ Len(r.vars.req) >= 1
          /\ Len(r.params) >= 1
          /\ Len(r.headers) >= 1
          /\ Len(r.body.formUrlEncoded) >= 1

\* ------------------------------------------------------- claims: the pipeline

\* C8: importCollection settles at most once, either resolving with the
\* collection validateSchema returned or rejecting with one BrunoError whose
\* message starts with "Import collection failed"; a failure in any stage ends
\* in that rejection and never in a resolved collection.
C8_SettlesOnce ==
  /\ Len(settled) <= 1
  /\ pc = "done" => Len(settled) = 1
  /\ settled = <<"resolve">> =>
       /\ "items" \in DOMAIN result
       /\ result = validated
       /\ err = Nothing
       /\ rejection = Nothing
  /\ settled = <<"reject">> =>
       /\ rejection.kind = "BrunoError"
       /\ StartsWith(rejection.message, <<"Import collection failed">>)
       /\ result = Nothing
  /\ err # Nothing =>
       /\ pc \in {"catch", "done"}
       /\ result = Nothing
       /\ pc = "done" => settled = <<"reject">>

\* A stage of ./common threw after parseRamlCollection had built a collection,
\* and the import rejected.
C8_Witness ==
  /\ pc = "done"
  /\ settled = <<"reject">>
  /\ Parsed
  /\ err.kind = "Error"

\* C9: the stages start in the fixed order fileDialog, readFile,
\* parseRamlCollection, transformItemsInCollection, hydrateSeqInCollection,
\* validateSchema; a stage starts only when no stage is in progress and none
\* has failed, at most one stage is in progress at a time, and after a failure
\* no stage starts.
C9_StageOrder ==
  /\ [](started = SubSeq(Stages, 1, Len(started)) /\ Cardinality(running) <= 1)
  /\ [][started' # started =>
          /\ started' = Append(started, Stages[Len(started) + 1])
          /\ running = {}
          /\ err = Nothing]_allVars
  /\ [][err # Nothing => started' = started /\ err' = err]_allVars

\* Every stage has started, and the import resolved.
C9_Witness ==
  /\ started = Stages
  /\ settled = <<"resolve">>

\* ---------------------------------------------------- claims: the OpenAPI branch

\* The request item built from the operation descriptor r.
IsItemOf(item, r) ==
  /\ item.type = "http-request"
  /\ item.request.url = Str(ensureUrl(r.global.server \o <<"/">> \o r.path))
  /\ item.request.method = Str(ToUpperCase(r.method))

ItemOf(r) ==
  RequestItems(brunoItems)[CHOOSE i \in 1..Len(RequestItems(brunoItems)) :
                             IsItemOf(RequestItems(brunoItems)[i], r)]

\* The scheme named name in the document's securitySchemes index.
IndexedScheme(doc, name) ==
  IF name = Undefined \/ Nullish(Get(doc, <<"components">>)) THEN Undefined
  ELSE Get(Get(Get(doc, <<"components">>), <<"securitySchemes">>), name.s)

\* C2: an operation that declares its own non-empty security requirement is
\* transformed without failing, whatever the spec-wide security list is, and
\* the auth of its request item is the mapping of its first named scheme,
\* looked up in the document's securitySchemes index.
C2_AuthPrecedence ==
  oPc \in {"done", "thrown"} =>
    \A i \in 1..Len(requests) :
      OwnSecurity(requests[i].operationObject) =>
        /\ ~transformOpenapiRequestItemThrows(requests[i])
        /\ oPc = "done"
        /\ ItemOf(requests[i]).request.auth =
             AuthOf(IndexedScheme(collectionData,
                                  FirstSchemeName(requests[i].operationObject)))

\* C2, where the code keeps it: under a non-empty spec-wide security list the
\* operation's own scheme is the one mapped.
C2_PrecedenceUnderSpecSecurity ==
  (oPc \in {"done", "thrown"}
     /\ Len(Or(Get(collectionData, <<"security">>), Arr(<<>>)).a) > 0) =>
    /\ oPc = "done"
    /\ \A i \in 1..Len(requests) :
         OwnSecurity(requests[i].operationObject) =>
           ItemOf(requests[i]).request.auth =
             AuthOf(IndexedScheme(collectionData,
                                  FirstSchemeName(requests[i].operationObject)))

RequestKeys == {"url", "method", "auth", "headers", "params", "vars", "body", "docs"}

\* C4: the request of every request item, of the RAML branch and of the
\* OpenAPI branch, has the eight keys url, method, auth, headers, params, vars,
\* body and docs.
C4_RequestKeys ==
  /\ Parsed =>
       \A i \in 1..Len(RequestItems(collection.items)) :
         DOMAIN RequestItems(collection.items)[i].request = RequestKeys
  /\ oPc = "done" =>
       \A i \in 1..Len(RequestItems(brunoItems)) :
         DOMAIN RequestItems(brunoItems)[i].request = RequestKeys

\* C4, the RAML branch alone.
C4_RamlRequestKeys ==
  Parsed =>
    \A i \in 1..Len(RequestItems(collection.items)) :
      DOMAIN RequestItems(collection.items)[i].request = RequestKeys

\* How often x occurs in seq.
Count(seq, x) == Cardinality({i \in 1..Len(seq) : seq[i] = x})

\* The groups partition the requests: a tagged request is once in the group
\* of its first tag and nowhere else, an untagged one once among the
\* ungrouped; no two groups share a name and none is empty.
GroupsPartition ==
  /\ \A i \in 1..Len(requests) :
       LET r == requests[i]
       IN IF Len(TagsOf(r)) > 0
          THEN /\ Count(ungroupedRequests, r) = 0
               /\ \E g \in 1..Len(groups) : groups[g].name = TagsOf(r)[1]
               /\ \A g \in 1..Len(groups) :
                    Count(groups[g].requests, r)
                      = (IF groups[g].name = TagsOf(r)[1] THEN 1 ELSE 0)
          ELSE /\ Count(ungroupedRequests, r) = 1
               /\ \A g \in 1..Len(groups) : Count(groups[g].requests, r) = 0
  /\ \A g, h \in 1..Len(groups) : g # h => groups[g].name # groups[h].name
  /\ \A g \in 1..Len(groups) :
       /\ Len(groups[g].requests) > 0
       /\ \A j \in 1..Len(groups[g].requests) : Count(requests, groups[g].requests[j]) = 1
  /\ \A u \in 1..Len(ungroupedRequests) : Count(requests, ungroupedRequests[u]) = 1

\* The items are one folder per group, named after it and holding the items
\* of its requests, followed by the items of the ungrouped requests.
FoldersMatchGroups ==
  /\ Len(brunoItems) = Len(groups) + Len(ungroupedRequests)
  /\ \A g \in 1..Len(groups) :
       /\ brunoItems[g].type = "folder"
       /\ brunoItems[g].name = groups[g].name
       /\ Len(brunoItems[g].items) = Len(groups[g].requests)
       /\ \A j \in 1..Len(groups[g].requests) :
            IsItemOf(brunoItems[g].items[j], groups[g].requests[j])
  /\ \A u \in 1..Len(ungroupedRequests) :
       IsItemOf(brunoItems[Len(groups) + u], ungroupedRequests[u])

\* Two operations tagged Users and one untagged.
TwoUsersOneUntagged ==
  /\ Len(requests) = 3
  /\ Cardinality({i \in 1..3 : TagsOf(requests[i]) = <<S("Users")>>}) = 2
  /\ Cardinality({i \in 1..3 : Len(TagsOf(requests[i])) = 0}) = 1

RECURSIVE Present(_, _)
Present(index, keys) ==
  Len(keys) = 0 \/ (HasKey(index, Head(keys)) /\ Present(Get(index, Head(keys)), Tail(keys)))

\* The content at the path.
RECURSIVE Content(_, _)
Content(index, keys) ==
  IF Len(keys) = 0 THEN index ELSE Content(Get(index, Head(keys)), Tail(keys))

\* A node { "$ref": ... }.
IsRefNode(spec) == spec.t = "obj" /\ Len(spec.e) = 1 /\ spec.e[1].k = <<"$ref">>

\* C6: resolveRefs on a node { "$ref": "#/components/k1/.../kn" } returns the
\* content found by walking the components index key by key, its nested refs
\* resolved; when a key of the path is missing from the index, or the ref is
\* not local, it returns the node unchanged and raises no error.
C6_RefResolution ==
  (rPc \in {"returned", "returnedOfDocument"} /\ IsRefNode(rSpec)) =>
    IF StartsWith(rSpec.e[1].v.s, RefPrefix)
       /\ Present(rComponents, RefKeys(rSpec.e[1].v.s))
    THEN rResult = resolveRefs(Content(rComponents, RefKeys(rSpec.e[1].v.s)), rComponents)
    ELSE rResult = rSpec

\* C6, where the code keeps it: with a components index at hand, refs whose
\* content is truthy resolve to it, and missing or non-local ones come back
\* unchanged.
C6_ResolutionUnderIndex ==
  (rPc \in {"returned", "returnedOfDocument"} /\ IsRefNode(rSpec)
     /\ ~Nullish(rComponents)) =>
    IF StartsWith(rSpec.e[1].v.s, RefPrefix)
       /\ Present(rComponents, RefKeys(rSpec.e[1].v.s))
       /\ Truthy(Content(rComponents, RefKeys(rSpec.e[1].v.s)))
    THEN rResult = resolveRefs(Content(rComponents, RefKeys(rSpec.e[1].v.s)), rComponents)
    ELSE rResult = rSpec

\* ------------------------------------------------------ claims: the RAML payload

\* The operation nodes of a resource tree, in the order the walk builds their
\* request items.
RECURSIVE DeclaredOperations(_)
DeclaredOperations(e) ==
  IF Len(e) = 0 THEN <<>>
  ELSE (IF ToLowerCase(Head(e).k) \in methods THEN <<Or(Head(e).v, Obj(<<>>))>>
        ELSE IF StartsWith(Head(e).k, <<"/">>) THEN DeclaredOperations(Entries(Head(e).v))
        ELSE <<>>)
       \o DeclaredOperations(Tail(e))

\* What the body of an operation declares under the selected mime type.
SelectedEntry(body, defaultMediaType) ==
  IF SelectMediaType(body, defaultMediaType).t = "str"
  THEN Get(body, SelectMediaType(body, defaultMediaType).s)
  ELSE Undefined

\* The payload of body b is the one declared by entry: for a form mode one
\* Field per declared property, in declaration order; for json, xml or text
\* the declared example, or the empty string.
PayloadFrom(b, entry) ==
  /\ b.mode \in {S("formUrlEncoded"), S("multipartForm")} =>
       LET declared == Entries(Or(Get(entry, <<"properties">>), Obj(<<>>)))
           list == b[PropertyKey(b.mode)]
       IN /\ Len(list) = Len(declared)
          /\ \A j \in 1..Len(declared) : list[j].name = Str(declared[j].k)
  /\ b.mode \in {S("json"), S("xml"), S("text")} =>
       b[PropertyKey(b.mode)] = Or(Get(entry, <<"example">>), Str(<<>>))

\* C11: for a RAML operation whose body declares an entry under the selected
\* mime type, the payload comes from that entry: a form mode's list holds one
\* Field per property declared under the mime type, in declaration order, and
\* a json, xml or text payload equals the example declared under it (the empty
\* string if none).
C11_BodyPayload ==
  Parsed =>
    /\ Len(RequestItems(collection.items)) = Len(DeclaredOperations(Entries(data)))
    /\ \A i \in 1..Len(RequestItems(collection.items)) :
         LET body == Get(DeclaredOperations(Entries(data))[i], <<"body">>)
         IN (Truthy(body)
               /\ SelectedEntry(body, Get(data, <<"mediaType">>)).t = "obj") =>
              PayloadFrom(RequestItems(collection.items)[i].request.body,
                          SelectedEntry(body, Get(data, <<"mediaType">>)))

\* C11, what the code reads instead: the properties and the example beside
\* the mime types, at the level of the body (or under its key "mediaType").
C11_PayloadFromBodyLevel ==
  Parsed =>
    \A i \in 1..Len(RequestItems(collection.items)) :
      LET body == Get(DeclaredOperations(Entries(data))[i], <<"body">>)
      IN (Truthy(body)
            /\ SelectedEntry(body, Get(data, <<"mediaType">>)).t = "obj") =>
           PayloadFrom(RequestItems(collection.items)[i].request.body,
                       Obj(<<KV(<<"properties">>, GetBodyLeaf(body, "properties")),
                             KV(<<"example">>, GetBodyLeaf(body, "example"))>>))

\* ------------------------------------------------------ claims: the request url

\* The symbols of s other than "/".
Unslashed(s) == SelectSeq(s, LAMBDA x : x # "/")

\* C12: the url of a request item is baseUri + '/' + path with duplicate
\* slashes collapsed: it holds no run of two or more "/" other than the "//"
\* directly after a ":", whatever the base URI and the path, a base URI that
\* begins or ends with "/" included.
C12_SlashesCollapsed ==
  uPc = "returned" =>
    /\ Unslashed(uUrl) = Unslashed(uBaseUri \o <<"/">> \o uPath)
    /\ \A i \in 1..(Len(uUrl) - 1) :
         (uUrl[i] = "/" /\ uUrl[i + 1] = "/") => (i > 1 /\ uUrl[i - 1] = ":")

\* C12, where the code keeps it: past the first two symbols of the url every
\* run of "/" is collapsed.
C12_CollapsedPastStart ==
  uPc = "returned" =>
    /\ Unslashed(uUrl) = Unslashed(uBaseUri \o <<"/">> \o uPath)
    /\ \A i \in 2..(Len(uUrl) - 1) :
         (uUrl[i] = "/" /\ uUrl[i + 1] = "/") => uUrl[i - 1] = ":"

\* ------------------------------------------------ claims: the RequestHeaders rows

\* An instance no handler has run on yet shows one enabled row.
StartsWithOneRow(i) ==
  ~headersState[i].own => (Len(HeadersOf(i)) = 1 /\ HeadersOf(i)[1].enabled)

\* handleRemoveHeader(index) on instance i takes out the row at index of i and
\* leaves the other rows of i, in order, and the rows of every other instance.
RemovesOneRow(i, index) ==
  handleRemoveHeader(i, index) =>
    /\ HeadersOf(i)' = Splice(HeadersOf(i), index)
    /\ \A j \in mounted \ {i} : HeadersOf(j)' = HeadersOf(j)

\* C13: the header rows of a RequestHeaders instance are private to it: after
\* any addHeader and handleRemoveHeader calls the module-level initialState is
\* unchanged, so another or later-mounted instance still starts with exactly
\* one enabled row; and handleRemoveHeader(i) removes exactly the row at index
\* i of its instance, the other rows and their order unchanged.
C13_RowsPrivate ==
  /\ [](initialState = InitialRows /\ \A i \in mounted : StartsWithOneRow(i))
  /\ [][\A i \in Instances : \A index \in 0..MaxAdds : RemovesOneRow(i, index)]_allVars

\* C13, within one instance: handleRemoveHeader(index) removes exactly the row
\* at index of the instance it is called on.
C13_RemovesRowAtIndex ==
  [][\A i \in Instances : \A index \in 0..MaxAdds :
       handleRemoveHeader(i, index) => HeadersOf(i)' = Splice(HeadersOf(i), index)]_allVars

\* C13, where the code keeps it: addHeader leaves initialState and the rows of
\* every other instance alone.
C13_AddHeaderIsPrivate ==
  [][\A i \in Instances :
       addHeader(i) =>
         /\ initialState' = initialState
         /\ \A j \in mounted \ {i} : HeadersOf(j)' = HeadersOf(j)]_allVars

====
